---- MODULE Spec2Model ----
(***************************************************************************)
(* NoteBox: the note table, the stored procedure functional.spNoteCreate,  *)
(* the service adapter noteCreate / dbRequest and the HTTP controller      *)
(* postHandler, as a state machine over concurrent database sessions.      *)
(***************************************************************************)
EXTENDS Integers, Sequences, FiniteSets, TLC

(* ------------------------------------------------------------------ *)
(* Bounds of the model                                                  *)
(* ------------------------------------------------------------------ *)
\* calls (requests or direct executions) started in one behaviour
MaxCalls == 2
\* GETUTCDATE() answers a timestamp in 0..MaxClock
MaxClock == 1
\* soft-deletions / account moves of user rows by other sessions
MaxUserChanges == 1
\* calls of getPool started in one behaviour
MaxPoolCalls == 3

(* ------------------------------------------------------------------ *)
(* Program constants                                                    *)
(* ------------------------------------------------------------------ *)
\* @title NVARCHAR(255): declared length of the procedure's parameter
TitleParamLen == 255
\* IF (LEN(@title) > 255)
TitleMaxLen == 255
\* z.string().min(1).max(255)
ZodTitleMin == 1
ZodTitleMax == 255
\* z.string().min(1) of content
ZodContentMin == 1
\* ;THROW 51000, ...
BusinessErrorNumber == 51000
\* error.number === 51000
HandlerBusinessNumber == 51000
\* IDENTITY(1, 1)
IdentitySeed == 1
IdentityIncrement == 1
\* res.status(201), res.status(400)
StatusCreated == 201
StatusBadRequest == 400

(* ------------------------------------------------------------------ *)
(* Values                                                               *)
(* ------------------------------------------------------------------ *)
\* the database sessions (one per request in flight)
Sessions == {"s1", "s2"}

\* SQL values: an INTEGER or NVARCHAR that may be NULL
SqlNull(dflt) == [null |-> TRUE, v |-> dflt]
SqlInt(n) == [null |-> FALSE, v |-> n]
SqlStr(s) == [null |-> FALSE, v |-> s]
NullInt == SqlNull(0)
NullStr == SqlNull(<<>>)

\* a string of n characters c
Rep(c, n) == [i \in 1..n |-> c]

Max(S) == CHOOSE x \in S : \A y \in S : y <= x

(* ------------------------------------------------------------------ *)
(* T-SQL string functions                                               *)
(* ------------------------------------------------------------------ *)
\* RTRIM: removes trailing spaces (char 32 only)
RTRIM(s) ==
  LET keep == {i \in 1..Len(s) : s[i] # " "}
  IN IF keep = {} THEN <<>> ELSE SubSeq(s, 1, Max(keep))

\* LTRIM: removes leading spaces
LTRIM(s) ==
  LET keep == {i \in 1..Len(s) : s[i] # " "}
  IN IF keep = {} THEN <<>>
     ELSE SubSeq(s, CHOOSE i \in keep : \A j \in keep : i <= j, Len(s))

\* LEN: number of characters excluding trailing spaces
LEN(s) == Len(RTRIM(s))

\* = on NVARCHAR pads the shorter operand with spaces
SqlStrEq(a, b) == RTRIM(a) = RTRIM(b)

\* assignment of a string to an NVARCHAR(n) parameter: silently cut to n
\* characters
BindNVarChar(s, n) == IF Len(s) > n THEN SubSeq(s, 1, n) ELSE s

(* ------------------------------------------------------------------ *)
(* State                                                                *)
(* ------------------------------------------------------------------ *)
VARIABLES
  user,          \* security.user: idUser -> [idAccount, deleted]
  note,          \* functional.note: the rows physically in the table
  identity,      \* the next IDENTITY value of functional.note
  tran,          \* per session: idNote of the rows its open transaction wrote
  scopeIdentity, \* per session: SCOPE_IDENTITY()
  pc,            \* per session: position in dbRequest / spNoteCreate / postHandler
  via,           \* per session: "http" (postHandler) or "direct" (dbRequest)
  body,          \* per session: req.body of the request being handled
  args,          \* per session: the parameters handed to request.execute
  recordset,     \* per session: the result sets the procedure has sent
  err,           \* per session: the error raised to the caller
  result,        \* per session: what dbRequest returned (recordset[0])
  resp,          \* per session: what postHandler sent with res.status().json()
  nextCalls,     \* per session: errors handed to next(error)
  execCalls,     \* per session: noteCreate invocations of the current request
  returned,      \* history: the idNote values returned so far, in order
  seen,          \* history: per session, Len(returned) when its call started
  calls,         \* history: calls started
  userChanges    \* history: changes made to security.user

vars == <<user, note, identity, tran, scopeIdentity, pc, via, body, args,
          recordset, err, result, resp, nextCalls, execCalls, returned, seen,
          calls, userChanges>>

\* getPool: the module-level connection pool and its callers
VARIABLES
  pool,          \* let pool: 0 for null, or the pool object assigned to it
  connects,      \* history: invocations of sql.connect
  gpc,           \* per caller: position in getPool
  caller,        \* per caller: "dbRequest" or "beginTransaction"
  got,           \* per caller: the pool object getPool resolved with, 0 for none
  poolCalls      \* history: calls of getPool started

poolVars == <<pool, connects, gpc, caller, got, poolCalls>>
allVars == <<vars, poolVars>>

\* the rows of security.user and of subscription.account
UserIds == {1, 2}
AccountIds == {1, 2}

NoErr == [raised |-> FALSE, number |-> 0, message |-> ""]
\* THROW 51000, '<message>', 1
BusinessError(m) == [raised |-> TRUE, number |-> BusinessErrorNumber, message |-> m]
\* an error of the engine, with its own number
EngineError(n) == [raised |-> TRUE, number |-> n, message |-> "engine"]
\* an Error of the driver: it has no number property
DriverError == [raised |-> TRUE, number |-> 0, message |-> "ConnectionError"]

\* the numbers of the engine's failures a statement can end with (here:
\* chosen as the victim of a deadlock)
FaultNumbers == {1205}

NoResp == [sent |-> FALSE, status |-> 0, success |-> FALSE, code |-> "",
           message |-> "", details |-> <<>>, data |-> 0]
NoArgs == [idAccount |-> NullInt, idUser |-> NullInt, title |-> NullStr,
           content |-> NullStr]

\* JavaScript values of a request body
JsNumber(n) == [t |-> "number", n |-> n, s |-> <<>>]
\* a number with a fractional part: n + 0.5
JsFloat(n) == [t |-> "float", n |-> n, s |-> <<>>]
JsString(s) == [t |-> "string", n |-> 0, s |-> s]
JsUndefined == [t |-> "undefined", n |-> 0, s |-> <<>>]
NoBody == [idAccount |-> JsUndefined, idUser |-> JsUndefined,
           title |-> JsUndefined, content |-> JsUndefined]

(* ------------------------------------------------------------------ *)
(* spNoteCreate: parameters and validations                             *)
(* ------------------------------------------------------------------ *)
\* the values of the caller bound to the procedure's declared parameters
BindParams(a) ==
  [a EXCEPT !.title =
     IF a.title.null THEN a.title
     ELSE SqlStr(BindNVarChar(a.title.v, TitleParamLen))]

\* (@x IS NULL OR LTRIM(RTRIM(@x)) = '')
IsBlank(x) == x.null \/ SqlStrEq(LTRIM(RTRIM(x.v)), <<>>)

\* EXISTS (SELECT * FROM security.user WHERE idUser = .. AND idAccount = ..
\*         AND deleted = 0)
UserBelongs(usr, idUser, idAccount) ==
  \E u \in DOMAIN usr :
    /\ u = idUser
    /\ usr[u].idAccount = idAccount
    /\ usr[u].deleted = FALSE

\* the validations of the procedure, in order: the message thrown, or "ok"
ProcValidate(p, usr) ==
  IF p.idAccount.null THEN "idAccountRequired"
  ELSE IF p.idUser.null THEN "idUserRequired"
  ELSE IF IsBlank(p.title) THEN "titleRequired"
  ELSE IF IsBlank(p.content) THEN "contentRequired"
  ELSE IF LEN(p.title.v) > TitleMaxLen THEN "titleExceedsMaxLength"
  ELSE IF ~UserBelongs(usr, p.idUser.v, p.idAccount.v)
       THEN "userDoesNotBelongToAccount"
  ELSE "ok"

(* ------------------------------------------------------------------ *)
(* postHandler: the zod schema of the request body                      *)
(* ------------------------------------------------------------------ *)
Issue(path, code) == [path |-> path, code |-> code]

\* the schema of a number without .positive()
ZodIntOnly(path, x) ==
  IF x.t \notin {"number", "float"} THEN <<Issue(path, "invalid_type")>>
  ELSE IF x.t = "float" THEN <<Issue(path, "invalid_type")>> ELSE <<>>

\* z.number().int().positive()
ZodPositiveInt(path, x) ==
  IF x.t \notin {"number", "float"} THEN <<Issue(path, "invalid_type")>>
  ELSE (IF x.t = "float" THEN <<Issue(path, "invalid_type")>> ELSE <<>>)
       \o (IF (x.t = "number" /\ x.n > 0) \/ (x.t = "float" /\ x.n >= 0)
           THEN <<>> ELSE <<Issue(path, "too_small")>>)

\* z.string().min(lo)
ZodStringMin(path, x, lo) ==
  IF x.t # "string" THEN <<Issue(path, "invalid_type")>>
  ELSE IF Len(x.s) < lo THEN <<Issue(path, "too_small")>> ELSE <<>>

\* z.string().min(lo).max(hi)
ZodStringMinMax(path, x, lo, hi) ==
  ZodStringMin(path, x, lo)
  \o (IF x.t = "string" /\ Len(x.s) > hi THEN <<Issue(path, "too_big")>> ELSE <<>>)

\* bodySchema.parse(req.body): the issues of the ZodError, none when it parses
ZodIssues(b) ==
  ZodPositiveInt("idAccount", b.idAccount)
  \o ZodPositiveInt("idUser", b.idUser)
  \o ZodStringMinMax("title", b.title, ZodTitleMin, ZodTitleMax)
  \o ZodStringMin("content", b.content, ZodContentMin)

\* the parameters noteCreate hands to dbRequest for a parsed body
ValidatedArgs(b) ==
  [idAccount |-> SqlInt(b.idAccount.n), idUser |-> SqlInt(b.idUser.n),
   title |-> SqlStr(b.title.s), content |-> SqlStr(b.content.s)]

\* errorResponse(message, code, details) sent with res.status(400)
ErrorResponse(message, code, details) ==
  [sent |-> TRUE, status |-> StatusBadRequest, success |-> FALSE, code |-> code,
   message |-> message, details |-> details, data |-> 0]

\* successResponse(data) sent with res.status(201)
SuccessResponse(data) ==
  [sent |-> TRUE, status |-> StatusCreated, success |-> TRUE, code |-> "",
   message |-> "", details |-> <<>>, data |-> data]

\* let pool: sql.ConnectionPool | null = null; nobody has called getPool
InitPool ==
  /\ pool = 0
  /\ connects = 0
  /\ gpc = [c \in Sessions |-> "idle"]
  /\ caller = [c \in Sessions |-> "none"]
  /\ got = [c \in Sessions |-> 0]
  /\ poolCalls = 0

(* ------------------------------------------------------------------ *)
(* Initial state                                                        *)
(* ------------------------------------------------------------------ *)
Init ==
  /\ user \in {[u \in UserIds |-> IF u = 1 THEN [idAccount |-> 1, deleted |-> FALSE]
                                   ELSE r] :
               r \in {[idAccount |-> 2, deleted |-> FALSE],
                      [idAccount |-> 1, deleted |-> TRUE]}}
  /\ note = {}
  /\ identity = IdentitySeed
  /\ tran = [s \in Sessions |-> {}]
  /\ scopeIdentity = [s \in Sessions |-> NullInt]
  /\ pc = [s \in Sessions |-> "idle"]
  /\ via = [s \in Sessions |-> "none"]
  /\ body = [s \in Sessions |-> NoBody]
  /\ args = [s \in Sessions |-> NoArgs]
  /\ recordset = [s \in Sessions |-> <<>>]
  /\ err = [s \in Sessions |-> NoErr]
  /\ result = [s \in Sessions |-> NullInt]
  /\ resp = [s \in Sessions |-> NoResp]
  /\ nextCalls = [s \in Sessions |-> 0]
  /\ execCalls = [s \in Sessions |-> 0]
  /\ returned = <<>>
  /\ seen = [s \in Sessions |-> 0]
  /\ calls = 0
  /\ userChanges = 0
  /\ InitPool

(* ------------------------------------------------------------------ *)
(* dbRequest and spNoteCreate                                           *)
(* ------------------------------------------------------------------ *)
\* the rows a READ COMMITTED statement of session s reads: the committed
\* rows and those its own transaction wrote
Visible(s) ==
  {r \in note : \A o \in Sessions \ {s} : r.idNote \notin tran[o]}

\* the rows no open transaction holds
Committed == {r \in note : \A o \in Sessions : r.idNote \notin tran[o]}

\* the row with GETUTCDATE() read a second time, later, for dateModified
NewRowTwoReads(id, p, now) ==
  [idNote |-> id, idAccount |-> p.idAccount.v, idUser |-> p.idUser.v,
   title |-> p.title.v, content |-> p.content.v,
   dateCreated |-> now, dateModified |-> now + 1, deleted |-> FALSE]

\* the row of the INSERT statement
NewRow(id, p, now) ==
  [idNote |-> id, idAccount |-> p.idAccount.v, idUser |-> p.idUser.v,
   title |-> p.title.v, content |-> p.content.v,
   dateCreated |-> now, dateModified |-> now, deleted |-> FALSE]

\* an identity that does not advance
NextIdentityStuck(id) == id

\* IDENTITY(1, 1): the value after id
NextIdentity(id) == id + IdentityIncrement

\* Execute with the INSERT placed before the validations, outside the
\* transaction
ExecuteWritesFirst(s, a) ==
  /\ args' = [args EXCEPT ![s] = a]
  /\ seen' = [seen EXCEPT ![s] = Len(returned)]
  /\ calls' = calls + 1
  /\ recordset' = [recordset EXCEPT ![s] = <<>>]
  /\ note' = note \cup {NewRow(identity, BindParams(a), 0)}
  /\ identity' = NextIdentity(identity)
  /\ LET m == ProcValidate(BindParams(a), user)
     IN IF m # "ok"
        THEN /\ err' = [err EXCEPT ![s] = BusinessError(m)]
             /\ result' = [result EXCEPT ![s] = NullInt]
        ELSE /\ err' = [err EXCEPT ![s] = NoErr]
             /\ result' = [result EXCEPT ![s] = SqlInt(identity)]
  /\ pc' = [pc EXCEPT ![s] = "settled"]
  /\ UNCHANGED <<user, tran, scopeIdentity, returned, userChanges>>

\* request.execute('[functional].[spNoteCreate]') up to the end of the
\* validations: getPool() rejects, or a validation throws, or the procedure
\* reaches BEGIN TRY
Execute(s, a) ==
  /\ args' = [args EXCEPT ![s] = a]
  /\ seen' = [seen EXCEPT ![s] = Len(returned)]
  /\ calls' = calls + 1
  /\ recordset' = [recordset EXCEPT ![s] = <<>>]
  /\ result' = [result EXCEPT ![s] = NullInt]
  /\ \/ /\ err' = [err EXCEPT ![s] = DriverError]
        /\ pc' = [pc EXCEPT ![s] = "settled"]
     \/ LET m == ProcValidate(BindParams(a), user)
        IN IF m # "ok"
           THEN /\ err' = [err EXCEPT ![s] = BusinessError(m)]
                /\ pc' = [pc EXCEPT ![s] = "settled"]
           ELSE /\ err' = [err EXCEPT ![s] = NoErr]
                /\ pc' = [pc EXCEPT ![s] = "insert"]
  /\ UNCHANGED <<user, note, identity, tran, scopeIdentity, returned, userChanges>>

\* dbRequest(procedure, parameters, ExpectedReturn.Single) called with the
\* parameters a, outside the controller
ExecProc(s, a) ==
  /\ pc[s] = "idle"
  /\ calls < MaxCalls
  /\ via' = [via EXCEPT ![s] = "direct"]
  /\ Execute(s, a)
  /\ UNCHANGED <<body, resp, nextCalls, execCalls>>

\* the constraints of functional.note on an inserted row: 0, or the number
\* of the error (pkNote, fkNote_Account, fkNote_User, the width of title)
ConstraintError(row, rows, usr) ==
  IF \E r \in rows : r.idNote = row.idNote THEN 2627
  ELSE IF row.idAccount \notin AccountIds THEN 547
  ELSE IF row.idUser \notin DOMAIN usr THEN 547
  ELSE IF Len(row.title) > TitleParamLen THEN 2628
  ELSE 0

\* BEGIN TRAN; @currentDateTime = GETUTCDATE(); INSERT INTO functional.note
Insert(s) ==
  /\ pc[s] = "insert"
  /\ \/ \E n \in FaultNumbers, used \in BOOLEAN :
          /\ err' = [err EXCEPT ![s] = EngineError(n)]
          /\ identity' = IF used THEN NextIdentity(identity) ELSE identity
          /\ pc' = [pc EXCEPT ![s] = "catch"]
          /\ UNCHANGED <<note, tran, scopeIdentity>>
     \/ \E now \in 0..MaxClock :
          LET row == NewRow(identity, BindParams(args[s]), now)
              e == ConstraintError(row, note, user)
          IN /\ identity' = NextIdentity(identity)
             /\ IF e # 0
                THEN /\ err' = [err EXCEPT ![s] = EngineError(e)]
                     /\ pc' = [pc EXCEPT ![s] = "catch"]
                     /\ UNCHANGED <<note, tran, scopeIdentity>>
                ELSE /\ note' = note \cup {row}
                     /\ tran' = [tran EXCEPT ![s] = @ \cup {row.idNote}]
                     /\ scopeIdentity' = [scopeIdentity EXCEPT ![s] = SqlInt(row.idNote)]
                     /\ pc' = [pc EXCEPT ![s] = "select"]
                     /\ UNCHANGED err
  /\ UNCHANGED <<user, via, body, args, recordset, result, resp, nextCalls,
                 execCalls, returned, seen, calls, userChanges>>

\* SET @idNote = SCOPE_IDENTITY(); SELECT @idNote AS [idNote]
SelectId(s) ==
  /\ pc[s] = "select"
  /\ \/ \E n \in FaultNumbers :
          /\ err' = [err EXCEPT ![s] = EngineError(n)]
          /\ pc' = [pc EXCEPT ![s] = "catch"]
          /\ UNCHANGED recordset
     \/ /\ recordset' = [recordset EXCEPT ![s] = Append(@, scopeIdentity[s])]
        /\ pc' = [pc EXCEPT ![s] = "commit"]
        /\ UNCHANGED err
  /\ UNCHANGED <<user, note, identity, tran, scopeIdentity, via, body, args,
                 result, resp, nextCalls, execCalls, returned, seen, calls,
                 userChanges>>

\* what dbRequest returns for ExpectedReturn.Single: result.recordset[0]
Single(rs) == IF Len(rs) > 0 THEN rs[1] ELSE NullInt

\* COMMIT TRAN; END TRY: the procedure ends and dbRequest returns recordset[0]
Commit(s) ==
  /\ pc[s] = "commit"
  /\ \/ \E n \in FaultNumbers :
          /\ err' = [err EXCEPT ![s] = EngineError(n)]
          /\ pc' = [pc EXCEPT ![s] = "catch"]
          /\ UNCHANGED <<tran, result, returned>>
     \/ /\ tran' = [tran EXCEPT ![s] = {}]
        /\ result' = [result EXCEPT ![s] = Single(recordset[s])]
        /\ returned' = Append(returned, Single(recordset[s]).v)
        /\ pc' = [pc EXCEPT ![s] = "settled"]
        /\ UNCHANGED err
  /\ UNCHANGED <<user, note, identity, scopeIdentity, via, body, args, recordset,
                 resp, nextCalls, execCalls, seen, calls, userChanges>>

\* a CATCH block without ROLLBACK TRAN: the rows stay
NotRolledBack(rows, written) == rows

\* the rows left by ROLLBACK TRAN of a transaction that wrote the rows written
RolledBack(rows, written) == {r \in rows : r.idNote \notin written}

\* BEGIN CATCH: ROLLBACK TRAN; THROW: request.execute rejects with the error
Catch(s) ==
  /\ pc[s] = "catch"
  /\ note' = RolledBack(note, tran[s])
  /\ tran' = [tran EXCEPT ![s] = {}]
  /\ pc' = [pc EXCEPT ![s] = "settled"]
  /\ UNCHANGED <<user, identity, scopeIdentity, via, body, args, recordset, err,
                 result, resp, nextCalls, execCalls, returned, seen, calls,
                 userChanges>>

(* ------------------------------------------------------------------ *)
(* postHandler                                                          *)
(* ------------------------------------------------------------------ *)
\* postHandler up to the first await that leaves it: bodySchema.parse throws
\* and the ZodError is answered, or noteCreate is invoked with the parsed body
PostHandler(s, b) ==
  /\ pc[s] = "idle"
  /\ calls < MaxCalls
  /\ via' = [via EXCEPT ![s] = "http"]
  /\ body' = [body EXCEPT ![s] = b]
  /\ nextCalls' = [nextCalls EXCEPT ![s] = 0]
  /\ IF ZodIssues(b) # <<>>
     THEN /\ resp' = [resp EXCEPT ![s] =
                        ErrorResponse("Validation failed", "VALIDATION_ERROR",
                                      ZodIssues(b))]
          /\ execCalls' = [execCalls EXCEPT ![s] = 0]
          /\ pc' = [pc EXCEPT ![s] = "responded"]
          /\ calls' = calls + 1
          /\ UNCHANGED <<user, note, identity, tran, scopeIdentity, args,
                         recordset, err, result, returned, seen, userChanges>>
     ELSE /\ resp' = [resp EXCEPT ![s] = NoResp]
          /\ execCalls' = [execCalls EXCEPT ![s] = 1]
          /\ Execute(s, ValidatedArgs(b))

\* a catch block that reports every error as a business-rule error
OutcomeAllBusiness(e) == IF ~e.raised THEN "created" ELSE "business"

\* what postHandler does with the outcome of await noteCreate(...): "created",
\* "business" (error.number === 51000) or "next"
Outcome(e) ==
  IF ~e.raised THEN "created"
  ELSE IF e.number = HandlerBusinessNumber THEN "business"
  ELSE "next"

\* postHandler after await noteCreate(...): res.status(201).json(...), or the
\* catch block
Respond(s) ==
  /\ pc[s] = "settled"
  /\ via[s] = "http"
  /\ LET o == Outcome(err[s])
     IN /\ resp' = [resp EXCEPT ![s] =
                      IF o = "created" THEN SuccessResponse(result[s].v)
                      ELSE IF o = "business"
                           THEN ErrorResponse(err[s].message, "BUSINESS_RULE_ERROR", <<>>)
                           ELSE @]
        /\ nextCalls' = [nextCalls EXCEPT ![s] = IF o = "next" THEN @ + 1 ELSE @]
  /\ pc' = [pc EXCEPT ![s] = "responded"]
  /\ UNCHANGED <<user, note, identity, tran, scopeIdentity, via, body, args,
                 recordset, err, result, execCalls, returned, seen, calls,
                 userChanges>>

\* the request is over: the session serves the next one
Release(s) ==
  /\ \/ pc[s] = "responded"
     \/ pc[s] = "settled" /\ via[s] = "direct"
  /\ pc' = [pc EXCEPT ![s] = "idle"]
  /\ via' = [via EXCEPT ![s] = "none"]
  /\ body' = [body EXCEPT ![s] = NoBody]
  /\ args' = [args EXCEPT ![s] = NoArgs]
  /\ recordset' = [recordset EXCEPT ![s] = <<>>]
  /\ err' = [err EXCEPT ![s] = NoErr]
  /\ result' = [result EXCEPT ![s] = NullInt]
  /\ resp' = [resp EXCEPT ![s] = NoResp]
  /\ nextCalls' = [nextCalls EXCEPT ![s] = 0]
  /\ execCalls' = [execCalls EXCEPT ![s] = 0]
  /\ scopeIdentity' = [scopeIdentity EXCEPT ![s] = NullInt]
  /\ seen' = [seen EXCEPT ![s] = 0]
  /\ UNCHANGED <<user, note, identity, tran, returned, calls, userChanges>>

(* ------------------------------------------------------------------ *)
(* security.user, written by other sessions                             *)
(* ------------------------------------------------------------------ *)
\* UPDATE security.user SET deleted = 1 WHERE idUser = u
UserSoftDelete(u) ==
  /\ userChanges < MaxUserChanges
  /\ user[u].deleted = FALSE
  /\ user' = [user EXCEPT ![u].deleted = TRUE]
  /\ userChanges' = userChanges + 1
  /\ UNCHANGED <<note, identity, tran, scopeIdentity, pc, via, body, args,
                 recordset, err, result, resp, nextCalls, execCalls, returned,
                 seen, calls>>

\* UPDATE security.user SET idAccount = a WHERE idUser = u
UserMove(u, a) ==
  /\ userChanges < MaxUserChanges
  /\ user[u].idAccount # a
  /\ user' = [user EXCEPT ![u].idAccount = a]
  /\ userChanges' = userChanges + 1
  /\ UNCHANGED <<note, identity, tran, scopeIdentity, pc, via, body, args,
                 recordset, err, result, resp, nextCalls, execCalls, returned,
                 seen, calls>>

(* ------------------------------------------------------------------ *)
(* Inputs                                                               *)
(* ------------------------------------------------------------------ *)
TitleA == <<"a">>
\* the longest title the procedure's parameter holds, and one character more
TitleFull == Rep("a", TitleParamLen)
TitleOver == Rep("a", TitleParamLen + 1)
\* spaces filling the parameter, then a letter
TitleSpacesThenA == Rep(" ", TitleParamLen) \o <<"a">>
\* a letter, then spaces past the end of the parameter
TitleAThenSpaces == <<"a">> \o Rep(" ", TitleParamLen)

\* concurrent sessions: parameters that differ in the user only
ConcArgs ==
  {[idAccount |-> SqlInt(1), idUser |-> SqlInt(u), title |-> SqlStr(TitleA),
    content |-> SqlStr(<<"b">>)] : u \in {1, 2}}

ConcBodies ==
  {[idAccount |-> JsNumber(1), idUser |-> JsNumber(1), title |-> JsString(t),
    content |-> JsString(<<"b">>)] : t \in {TitleA, <<>>, <<" ">>}}

\* one session: every class of parameter value
SeqArgs ==
  {[idAccount |-> a, idUser |-> u, title |-> t, content |-> c] :
     a \in {NullInt, SqlInt(1)},
     u \in {NullInt, SqlInt(1), SqlInt(2), SqlInt(3)},
     t \in {NullStr} \cup {SqlStr(x) : x \in {<<" ">>, TitleA, TitleFull,
                             TitleOver, TitleSpacesThenA, TitleAThenSpaces}},
     c \in {NullStr, SqlStr(<<" ", " ">>), SqlStr(<<"b">>)}}

SeqBodies ==
  {[idAccount |-> a, idUser |-> u, title |-> t, content |-> c] :
     a \in {JsNumber(1), JsNumber(0), JsFloat(1), JsUndefined},
     u \in {JsNumber(1), JsNumber(3), JsFloat(-1), JsString(<<"1">>)},
     t \in {JsUndefined, JsString(<<>>), JsString(<<" ">>), JsString(TitleA),
            JsString(TitleFull), JsString(TitleOver)},
     c \in {JsNumber(1), JsString(<<>>), JsString(<<" ">>), JsString(<<"b">>)}}

(* ------------------------------------------------------------------ *)
(* Specifications                                                       *)
(* ------------------------------------------------------------------ *)
\* concurrent sessions, concurrent changes of security.user
Next ==
  \/ \E s \in Sessions, a \in ConcArgs : ExecProc(s, a) /\ UNCHANGED poolVars
  \/ \E s \in Sessions, b \in ConcBodies : PostHandler(s, b) /\ UNCHANGED poolVars
  \/ \E s \in Sessions : Insert(s) /\ UNCHANGED poolVars
  \/ \E s \in Sessions : SelectId(s) /\ UNCHANGED poolVars
  \/ \E s \in Sessions : Commit(s) /\ UNCHANGED poolVars
  \/ \E s \in Sessions : Catch(s) /\ UNCHANGED poolVars
  \/ \E s \in Sessions : Respond(s) /\ UNCHANGED poolVars
  \/ \E s \in Sessions : Release(s) /\ UNCHANGED poolVars
  \/ \E u \in UserIds : UserSoftDelete(u) /\ UNCHANGED poolVars
  \/ \E u \in UserIds, a \in AccountIds : UserMove(u, a) /\ UNCHANGED poolVars

(* ------------------------------------------------------------------ *)
(* getPool: the module-level connection pool                            *)
(* ------------------------------------------------------------------ *)
\* the functions that start with const pool = await getPool()
PoolCallers == {"dbRequest", "beginTransaction"}

\* if (!pool)
PoolMissing(p) == p = 0

\* dbRequest or beginTransaction calls getPool, which runs to its first await:
\* with pool null it invokes sql.connect and waits; otherwise it returns pool
GetPool(c, k) ==
  /\ gpc[c] = "idle"
  /\ poolCalls < MaxPoolCalls
  /\ poolCalls' = poolCalls + 1
  /\ caller' = [caller EXCEPT ![c] = k]
  /\ IF PoolMissing(pool)
     THEN /\ connects' = connects + 1
          /\ gpc' = [gpc EXCEPT ![c] = "connecting"]
          /\ got' = [got EXCEPT ![c] = 0]
     ELSE /\ gpc' = [gpc EXCEPT ![c] = "resolved"]
          /\ got' = [got EXCEPT ![c] = pool]
          /\ UNCHANGED connects
  /\ UNCHANGED <<pool, vars>>

\* the pool objects sql.connect can resolve with on its n-th invocation: a new
\* ConnectionPool, or the one the driver keeps from an earlier invocation
ConnectResults(n) == 1..n

\* sql.connect resolves: pool = await sql.connect(...); return pool
ConnectResolves(c) ==
  /\ gpc[c] = "connecting"
  /\ \E p \in ConnectResults(connects) :
       /\ pool' = p
       /\ got' = [got EXCEPT ![c] = p]
  /\ gpc' = [gpc EXCEPT ![c] = "resolved"]
  /\ UNCHANGED <<connects, caller, poolCalls, vars>>

\* sql.connect rejects: getPool throws and pool stays as it is
ConnectRejects(c) ==
  /\ gpc[c] = "connecting"
  /\ gpc' = [gpc EXCEPT ![c] = "rejected"]
  /\ UNCHANGED <<pool, connects, caller, got, poolCalls, vars>>

\* the caller of getPool has finished with the pool it received
PoolCallerEnds(c) ==
  /\ gpc[c] \in {"resolved", "rejected"}
  /\ gpc' = [gpc EXCEPT ![c] = "idle"]
  /\ caller' = [caller EXCEPT ![c] = "none"]
  /\ got' = [got EXCEPT ![c] = 0]
  /\ UNCHANGED <<pool, connects, poolCalls, vars>>

Spec == Init /\ [][Next]_allVars

\* one session, one call at a time, no other writer: every class of input
NextSeq ==
  \/ \E a \in SeqArgs : ExecProc("s1", a) /\ UNCHANGED poolVars
  \/ \E b \in SeqBodies : PostHandler("s1", b) /\ UNCHANGED poolVars
  \/ Insert("s1") /\ UNCHANGED poolVars
  \/ SelectId("s1") /\ UNCHANGED poolVars
  \/ Commit("s1") /\ UNCHANGED poolVars
  \/ Catch("s1") /\ UNCHANGED poolVars
  \/ Respond("s1") /\ UNCHANGED poolVars
  \/ Release("s1") /\ UNCHANGED poolVars

SpecSeq == Init /\ [][NextSeq]_allVars

\* concurrent calls of getPool by dbRequest and beginTransaction
NextPool ==
  \/ \E c \in Sessions, k \in PoolCallers : GetPool(c, k)
  \/ \E c \in Sessions : ConnectResolves(c)
  \/ \E c \in Sessions : ConnectRejects(c)
  \/ \E c \in Sessions : PoolCallerEnds(c)

SpecPool == Init /\ [][NextPool]_allVars

(* ------------------------------------------------------------------ *)
(* Properties                                                           *)
(* ------------------------------------------------------------------ *)
\* a call of the procedure that reached it: the driver did not fail first
Ran(s) == pc[s] # "idle" /\ execCalls[s] + (IF via[s] = "direct" THEN 1 ELSE 0) > 0
                         /\ err[s] # DriverError

\* the step in which session s starts a call that reaches the procedure
Starts(s) ==
  /\ pc[s] = "idle"
  /\ pc'[s] \in {"settled", "insert"}
  /\ err'[s] # DriverError

\* blank after trimming, on the value the caller supplied
RawBlank(x) == x.null \/ \A i \in 1..Len(x.v) : x.v[i] = " "

\* the six checks in their order, on the values the caller supplied: the
\* condition of the first that fails, or "ok"
FirstFailing(a, usr) ==
  IF a.idAccount.null THEN "idAccountRequired"
  ELSE IF a.idUser.null THEN "idUserRequired"
  ELSE IF RawBlank(a.title) THEN "titleRequired"
  ELSE IF RawBlank(a.content) THEN "contentRequired"
  ELSE IF Len(a.title.v) > TitleMaxLen THEN "titleExceedsMaxLength"
  ELSE IF ~(\E u \in DOMAIN usr : /\ u = a.idUser.v
                                  /\ usr[u].idAccount = a.idAccount.v
                                  /\ ~usr[u].deleted)
       THEN "userDoesNotBelongToAccount"
  ELSE "ok"

\* C1: for every input the outcome of spNoteCreate is the condition of the
\* first failing check, in the order idAccount, idUser, title blank, content
\* blank, title longer than 255, user not an active member of the account;
\* with no failing check the call proceeds to the insert.
C1_FirstFailingCheckWins ==
  [][\A s \in Sessions :
       Starts(s) =>
         LET f == FirstFailing(args'[s], user)
         IN IF f = "ok" THEN pc'[s] = "insert" /\ ~err'[s].raised
            ELSE pc'[s] = "settled" /\ err'[s] = BusinessError(f)]_vars

\* C2: a call of spNoteCreate that fails with one of the validation
\* conditions leaves the note table as it was: no row is added, removed or
\* changed, no transaction is opened and no identity value is used.
C2_ValidationFailureChangesNothing ==
  [][\A s \in Sessions :
       (Starts(s) /\ err'[s].raised /\ err'[s].number = BusinessErrorNumber)
         => /\ note' = note
            /\ Cardinality(note') = Cardinality(note)
            /\ tran' = tran
            /\ identity' = identity]_vars

\* C2 witness: a call has failed with a validation condition while the table
\* holds a committed row.
C2_Witness ==
  \E s \in Sessions :
    /\ pc[s] = "settled"
    /\ err[s].raised /\ err[s].number = BusinessErrorNumber
    /\ Committed # {}

\* C4: a call whose title passes checks 1-4 and has more than 255 characters
\* as supplied by the caller fails with titleExceedsMaxLength and inserts no
\* row.
C4_OverlongTitleRejected ==
  \A s \in Sessions :
    (/\ Ran(s)
     /\ ~args[s].idAccount.null /\ ~args[s].idUser.null
     /\ ~RawBlank(args[s].title) /\ ~RawBlank(args[s].content)
     /\ Len(args[s].title.v) > TitleMaxLen)
      => /\ pc[s] \in {"settled", "responded"}
         /\ err[s] = BusinessError("titleExceedsMaxLength")
         /\ scopeIdentity[s].null

\* values that pass checks 1-5, on the values the caller supplied
ValidValues(a) ==
  /\ ~a.idAccount.null /\ ~a.idUser.null
  /\ ~RawBlank(a.title) /\ ~RawBlank(a.content)
  /\ Len(a.title.v) <= TitleMaxLen

\* a call that has ended without an error
Succeeded(s) == Ran(s) /\ pc[s] \in {"settled", "responded"} /\ ~err[s].raised

\* the number of times x occurs in the sequence q
Count(q, x) == Cardinality({i \in 1..Len(q) : q[i] = x})

\* C3: a call with valid inputs passes every validation and, unless the engine
\* fails the transaction, succeeds; a successful call has inserted exactly one
\* row, with deleted = false and the caller's values, and returns that row's
\* idNote, which no other call has returned and which is greater than every
\* idNote returned before the call started (also when the inputs repeat).
C3_ValidCallCreatesOneNewNote ==
  /\ [][\A s \in Sessions :
          (Starts(s) /\ FirstFailing(args'[s], user) = "ok")
            => pc'[s] = "insert"]_vars
  /\ [](\A s \in Sessions :
          /\ (Ran(s) /\ err[s].raised /\ err[s].number # BusinessErrorNumber)
               => err[s].number \in FaultNumbers
          /\ (Succeeded(s) /\ ValidValues(args[s])) =>
               /\ ~result[s].null
               /\ Cardinality({r \in note : r.idNote = result[s].v}) = 1
               /\ \E r \in Committed :
                    /\ r.idNote = result[s].v
                    /\ r.deleted = FALSE
                    /\ r.idAccount = args[s].idAccount.v
                    /\ r.idUser = args[s].idUser.v
                    /\ r.title = args[s].title.v
                    /\ r.content = args[s].content.v
               /\ Count(returned, result[s].v) = 1
               /\ \A i \in 1..seen[s] : returned[i] < result[s].v)

\* C3 witness: two calls with identical inputs have succeeded, one after the
\* other, and two notes with two identifiers exist.
C3_Witness ==
  /\ Len(returned) = 2
  /\ returned[1] < returned[2]
  /\ \E r1, r2 \in Committed :
       /\ r1.idNote = returned[1] /\ r2.idNote = returned[2]
       /\ r1.idAccount = r2.idAccount /\ r1.idUser = r2.idUser
       /\ r1.title = r2.title /\ r1.content = r2.content
       /\ Len(r1.title) = TitleMaxLen
  /\ \E s \in Sessions : Succeeded(s) /\ result[s].v = returned[2] /\ seen[s] = 1

\* a call that has ended with an error raised inside the transaction
FailedInTran(s) ==
  /\ Ran(s) /\ pc[s] \in {"settled", "responded"}
  /\ err[s].raised /\ err[s].number # BusinessErrorNumber

\* C5: when a step fails after BEGIN TRAN (the insert, reading back the
\* identifier, the commit), the transaction is rolled back and the same error
\* is raised to the caller: the row of a failed creation is never visible to
\* another session, is not in the table once the call has ended, and the
\* caller gets no identifier for it.
C5_FailureRollsBackAndRethrows ==
  /\ [][\A s \in Sessions :
          (pc[s] = "catch" /\ pc'[s] # "catch")
            => /\ pc'[s] = "settled"
               /\ err'[s] = err[s]
               /\ tran'[s] = {}
               /\ \A id \in tran[s] : \A r \in note' : r.idNote # id]_vars
  /\ [](\A s \in Sessions :
          /\ pc[s] = "catch" =>
               /\ err[s].raised
               /\ \A o \in Sessions \ {s} :
                    \A r \in Visible(o) : r.idNote \notin tran[s]
          /\ FailedInTran(s) =>
               /\ tran[s] = {}
               /\ result[s].null
               /\ ~resp[s].success
               /\ ~scopeIdentity[s].null =>
                    /\ \A r \in note : r.idNote # scopeIdentity[s].v
                    /\ Count(returned, scopeIdentity[s].v) = 0)

\* C5 witness: the commit of a creation failed after its row was inserted and
\* its identifier selected, and the call has ended with the engine's error.
C5_Witness ==
  \E s \in Sessions :
    /\ FailedInTran(s)
    /\ ~scopeIdentity[s].null
    /\ recordset[s] # <<>>
    /\ err[s].number \in FaultNumbers

\* C6: every row of the note table has dateCreated <= dateModified, and a row
\* inserted by spNoteCreate (every row is) has dateCreated = dateModified.
C6_CreatedEqualsModified ==
  \A r \in note :
    /\ r.dateCreated <= r.dateModified
    /\ r.dateCreated = r.dateModified

\* C6 witness: a row inserted at a timestamp other than the first.
C6_Witness ==
  \E r \in Committed : r.dateCreated > 0 /\ r.dateModified = r.dateCreated

\* C7: at the moment spNoteCreate inserts a row, security.user holds a row
\* with the note's idUser and idAccount that is not soft-deleted, whatever
\* other sessions did to security.user since the membership check.
C7_InsertReferencesActiveMember ==
  [][\A s \in Sessions :
       (pc[s] = "insert" /\ pc'[s] = "select")
         => \E u \in DOMAIN user :
              /\ u = args[s].idUser.v
              /\ user[u].idAccount = args[s].idAccount.v
              /\ ~user[u].deleted]_vars

\* C10: under every interleaving of creation requests each request is atomic
\* and adds one row when it succeeds: the rows of open transactions are whole
\* and seen by their own session only, the idNote values are pairwise
\* distinct, and the committed rows are exactly the rows of the requests that
\* succeeded, one each.
C10_ConcurrentCreationsAreAtomic ==
  /\ \A r1, r2 \in note : r1.idNote = r2.idNote => r1 = r2
  /\ \A s \in Sessions :
       /\ Cardinality(tran[s]) <= 1
       /\ tran[s] # {} => pc[s] \in {"select", "commit", "catch"}
       /\ \A id \in tran[s] :
            /\ \E r \in Visible(s) : r.idNote = id
            /\ \A o \in Sessions \ {s} :
                 /\ id \notin tran[o]
                 /\ \A r \in Visible(o) : r.idNote # id
  /\ Cardinality(Committed) = Len(returned)
  /\ \A i \in 1..Len(returned) :
       /\ Count(returned, returned[i]) = 1
       /\ Cardinality({r \in Committed : r.idNote = returned[i]}) = 1

\* C10 witness: two requests of the same user with the same inputs hold open
\* transactions at the same time, each with its own row.
C10_Witness ==
  \E s, o \in Sessions :
    /\ s # o
    /\ tran[s] # {} /\ tran[o] # {}
    /\ args[s] = args[o]

\* the six conditions spNoteCreate raises
SixConditions ==
  {"idAccountRequired", "idUserRequired", "titleRequired", "contentRequired",
   "titleExceedsMaxLength", "userDoesNotBelongToAccount"}

\* how the creation of a request ended
BusinessFailure(s) == err[s].raised /\ err[s].message \in SixConditions
OtherFailure(s) == err[s].raised /\ err[s].message \notin SixConditions

\* C8: postHandler answers a request whose body parsed with exactly one
\* outcome: 201 and the created identifier when creation succeeded; 400
\* BUSINESS_RULE_ERROR with the message when creation raised one of its six
\* conditions; no response and one call of next(error) on any other failure.
\* noteCreate is invoked once, and nothing is sent before creation has ended.
C8_OneOutcomePerRequest ==
  \A s \in Sessions :
    via[s] = "http" =>
      /\ execCalls[s] <= 1
      /\ nextCalls[s] <= 1
      /\ ~(resp[s].sent /\ nextCalls[s] > 0)
      /\ pc[s] # "responded" => (~resp[s].sent /\ nextCalls[s] = 0)
      /\ (pc[s] = "responded" /\ execCalls[s] = 1) =>
           /\ ~err[s].raised =>
                /\ ~result[s].null
                /\ resp[s].sent /\ resp[s].success
                /\ resp[s].status = StatusCreated
                /\ resp[s].data = result[s].v
                /\ nextCalls[s] = 0
           /\ BusinessFailure(s) =>
                /\ resp[s].sent /\ ~resp[s].success
                /\ resp[s].status = StatusBadRequest
                /\ resp[s].code = "BUSINESS_RULE_ERROR"
                /\ resp[s].message = err[s].message
                /\ nextCalls[s] = 0
           /\ OtherFailure(s) =>
                /\ ~resp[s].sent
                /\ nextCalls[s] = 1

\* C8 witness: one request was answered BUSINESS_RULE_ERROR for a condition of
\* the procedure while another, failed by the engine inside the transaction,
\* was handed to next(error).
C8_Witness ==
  \E s, o \in Sessions :
    /\ via[s] = "http" /\ pc[s] = "responded"
    /\ resp[s].code = "BUSINESS_RULE_ERROR"
    /\ err[s].message = "userDoesNotBelongToAccount"
    /\ via[o] = "http" /\ pc[o] = "responded"
    /\ err[o].number \in FaultNumbers /\ nextCalls[o] = 1

\* the structural contract of the request body
IsPositiveInteger(x) == x.t = "number" /\ x.n > 0
IsTitle(x) == x.t = "string" /\ Len(x.s) >= 1 /\ Len(x.s) <= TitleMaxLen
IsContent(x) == x.t = "string" /\ Len(x.s) >= 1
Structural(b) ==
  /\ IsPositiveInteger(b.idAccount) /\ IsPositiveInteger(b.idUser)
  /\ IsTitle(b.title) /\ IsContent(b.content)
ViolatedFields(b) ==
  (IF IsPositiveInteger(b.idAccount) THEN {} ELSE {"idAccount"})
  \cup (IF IsPositiveInteger(b.idUser) THEN {} ELSE {"idUser"})
  \cup (IF IsTitle(b.title) THEN {} ELSE {"title"})
  \cup (IF IsContent(b.content) THEN {} ELSE {"content"})

\* C9: a request whose body violates the structural contract is answered 400
\* VALIDATION_ERROR with the violated fields, noteCreate is not invoked, and
\* the step changes nothing in the store; noteCreate is invoked only with the
\* values of a body that satisfies the contract.
C9_StructuralErrorsStopAtController ==
  /\ [][\A s \in Sessions :
          (pc[s] = "idle" /\ via'[s] = "http" /\ ~Structural(body'[s]))
            => /\ note' = note
               /\ identity' = identity
               /\ tran' = tran]_vars
  /\ [](\A s \in Sessions :
          via[s] = "http" =>
            /\ ~Structural(body[s]) =>
                 /\ pc[s] = "responded"
                 /\ resp[s].sent /\ ~resp[s].success
                 /\ resp[s].status = StatusBadRequest
                 /\ resp[s].code = "VALIDATION_ERROR"
                 /\ {resp[s].details[i].path : i \in 1..Len(resp[s].details)}
                      = ViolatedFields(body[s])
                 /\ execCalls[s] = 0
                 /\ args[s] = NoArgs
                 /\ ~err[s].raised
                 /\ nextCalls[s] = 0
            /\ execCalls[s] > 0 =>
                 /\ Structural(body[s])
                 /\ args[s].idAccount = SqlInt(body[s].idAccount.n)
                 /\ args[s].idUser = SqlInt(body[s].idUser.n)
                 /\ args[s].title = SqlStr(body[s].title.s)
                 /\ args[s].content = SqlStr(body[s].content.s))

\* C9 witness: a body with a title of 256 characters and an idAccount of 0 was
\* answered VALIDATION_ERROR while the table holds a committed row.
C9_Witness ==
  \E s \in Sessions :
    /\ via[s] = "http" /\ pc[s] = "responded"
    /\ resp[s].code = "VALIDATION_ERROR"
    /\ body[s].title.t = "string" /\ Len(body[s].title.s) > TitleMaxLen
    /\ body[s].idAccount = JsNumber(0)
    /\ Committed # {}

\* C11: over every interleaving of dbRequest and beginTransaction calls,
\* also of calls that start while pool is still null and the first connect
\* has not resolved, sql.connect is invoked at most once and every caller
\* receives the same pool object.
C11_PoolCreatedAtMostOnce ==
  /\ connects <= 1
  /\ \A c, d \in Sessions :
       (gpc[c] = "resolved" /\ gpc[d] = "resolved") => got[c] = got[d]

====
